---- MODULE Spec2Model ----
(***************************************************************************)
(* Model of src/main.py: the Trello daily report script.                   *)
(*                                                                         *)
(* Hours are carried as integers in thousandths of an hour, so that the    *)
(* rounding of a card's sum to two decimals (round(x, 2)) is a real        *)
(* conversion.  A date string is a record: its format, its local clock     *)
(* reading in hours and its UTC offset in hours.  A comment body is a      *)
(* sequence of tokens.  A JSON object is a function whose DOMAIN is the    *)
(* set of keys present.  The iteration order of a Python set of strings    *)
(* or of objects hashed by a string is not fixed by the program (string    *)
(* hashing is seeded per process): it is a nondeterministic permutation.   *)
(***************************************************************************)
EXTENDS Integers, Sequences, FiniteSets, TLC

VARIABLES pc, mock, actions, start_datetime, raw_cards, projects, categories,
          spents, cards, order, report, markdown, report_dict, files, error

vars == <<pc, mock, actions, start_datetime, raw_cards, projects, categories,
          spents, cards, order, report, markdown, report_dict, files, error>>

(***************************************************************************)
(* Bounds of the model.                                                    *)
(***************************************************************************)
MaxActions == 2
MaxCards == 2
MaxLabels == 2
MaxConf == 2

(***************************************************************************)
(* Constants of the program.                                               *)
(***************************************************************************)
_MOCK_ACTIONS_FILE == "mock_actions.json"
_MOCK_CARDS_FILE == "mock_cards.json"
_REPORT_MARKDOWN_FILE == "report.md"
_REPORT_JSON_FILE == "mock_report.json"
_JST == 9
_UTC == 0
NOT_PROJECT_TITLE == "?????????"
NOT_CATEGORY_TITLE == "?????????"

(***************************************************************************)
(* Generic helpers.                                                        *)
(***************************************************************************)
HasKey(obj, key) == key \in DOMAIN obj

RECURSIVE SumSeq(_)
SumSeq(s) == IF s = <<>> THEN 0 ELSE Head(s) + SumSeq(Tail(s))

Perms(S) ==
    {f \in [1..Cardinality(S) -> S] : \A i, j \in DOMAIN f : f[i] = f[j] => i = j}

RECURSIVE SeqsUpTo(_, _)
SeqsUpTo(S, n) ==
    IF n = 0 THEN {<<>>}
    ELSE LET shorter == SeqsUpTo(S, n - 1)
         IN  shorter \cup {Append(s, x) : s \in {t \in shorter : Len(t) = n - 1}, x \in S}

(***************************************************************************)
(* Dates.  datetime.strptime(s, '%Y-%m-%dT%H:%M:%S.%f%z') raises           *)
(* ValueError unless the string has the format, and otherwise yields an    *)
(* aware datetime; aware datetimes compare by their UTC instant.           *)
(***************************************************************************)
\* A parse that swallows the format error and yields the epoch.
strptime_lenient(date) ==
    IF date.fmt = "iso"
    THEN [err |-> "none", val |-> [t |-> date.t, tz |-> date.tz]]
    ELSE [err |-> "none", val |-> [t |-> 0, tz |-> 0]]

strptime(date) ==
    IF date.fmt = "iso"
    THEN [err |-> "none", val |-> [t |-> date.t, tz |-> date.tz]]
    ELSE [err |-> "ValueError", val |-> [t |-> 0, tz |-> 0]]

Instant(dt) == dt.t - dt.tz

DatetimeLt(a, b) == Instant(a) < Instant(b)

get_start_datetime(day) == [t |-> 24 * day, tz |-> _JST]

(***************************************************************************)
(* _PLUS_FOR_TRELLO_COMMENT_FORMAT over token sequences: the literal       *)
(* plus!, a space, a numeral, a slash, a numeral, an optional space, then  *)
(* any remainder.  A numeral token stands for its decimal text;            *)
(* float() of it is its value, here in thousandths of an hour.             *)
(***************************************************************************)
Numerals ==
    ("2" :> 2000) @@ ("0.125" :> 125) @@ ("8" :> 8000) @@ ("4" :> 4000)

IsNumeral(tok) == tok \in DOMAIN Numerals

float(tok) == Numerals[tok]

pattern_match(text) ==
    IF /\ Len(text) >= 5
       /\ text[1] = "plus!"
       /\ text[2] = " "
       /\ IsNumeral(text[3])
       /\ text[4] = "/"
       /\ IsNumeral(text[5])
    THEN LET rest == SubSeq(text, 6, Len(text))
             comment == IF rest # <<>> /\ Head(rest) = " " THEN Tail(rest) ELSE rest
         IN  [matched |-> TRUE, spent |-> float(text[3]), comment |-> comment]
    ELSE [matched |-> FALSE, spent |-> 0, comment |-> <<>>]

(***************************************************************************)
(* round(x, 2) on a value in thousandths: to the nearest hundredth, a tie  *)
(* going to the even hundredth.                                            *)
(***************************************************************************)
round2(x) ==
    LET q == x \div 10
        r == x % 10
    IN  10 * (IF r < 5 THEN q
              ELSE IF r > 5 THEN q + 1
              ELSE IF q % 2 = 0 THEN q ELSE q + 1)

(***************************************************************************)
(* parse_actions: the filtering loop, then the grouping by card id.        *)
(***************************************************************************)
Action(card_id, comment, spent) ==
    [card_id |-> card_id, comment |-> comment, spent |-> spent]

Spent(card_id, comments, spent) ==
    [card_id |-> card_id, comments |-> comments, spent |-> spent]

\* The cutoff test with <= in place of <.
InPeriod_exclusive(action_datetime, start) == DatetimeLt(start, action_datetime)

InPeriod(action_datetime, start) == ~ DatetimeLt(action_datetime, start)

RECURSIVE in_period_actions(_, _, _, _)
in_period_actions(acts, start, i, acc) ==
    IF i > Len(acts) THEN [err |-> "none", val |-> acc]
    ELSE LET action == acts[i] IN
         IF ~ HasKey(action, "date") THEN [err |-> "KeyError", val |-> <<>>]
         ELSE LET parsed == strptime(action.date) IN
              IF parsed.err # "none" THEN [err |-> parsed.err, val |-> <<>>]
              ELSE IF ~ InPeriod(parsed.val, start)
                   THEN in_period_actions(acts, start, i + 1, acc)
              ELSE IF ~ (HasKey(action, "data") /\ HasKey(action.data, "text"))
                   THEN [err |-> "KeyError", val |-> <<>>]
              ELSE LET matched == pattern_match(action.data.text) IN
                   IF ~ matched.matched
                   THEN in_period_actions(acts, start, i + 1, acc)
                   ELSE IF ~ (HasKey(action.data, "card") /\ HasKey(action.data.card, "id"))
                        THEN [err |-> "KeyError", val |-> <<>>]
                        ELSE in_period_actions(acts, start, i + 1,
                                 Append(acc, Action(action.data.card.id,
                                                    matched.comment, matched.spent)))

card_id_set(filtered) == {filtered[i].card_id : i \in DOMAIN filtered}

HasComment(action) == action.comment # <<>>

card_spent(filtered, card_id) ==
    LET IsCard(action) == action.card_id = card_id
        card_actions == SelectSeq(filtered, IsCard)
        card_comments == SelectSeq(card_actions, HasComment)
    IN  Spent(card_id,
              [i \in DOMAIN card_comments |-> card_comments[i].comment],
              round2(SumSeq([i \in DOMAIN card_actions |-> card_actions[i].spent])))

\* The CardSpend list, the card ids taken in the set's iteration order ids.
group_spents(filtered, ids) == [k \in DOMAIN ids |-> card_spent(filtered, ids[k])]

parse_actions(acts, start) == in_period_actions(acts, start, 1, <<>>)

(***************************************************************************)
(* parse_cards: the card universe, card id -> Card.  A later record with   *)
(* the same id replaces an earlier one.                                    *)
(***************************************************************************)
Label(id, text) == [id |-> id, text |-> text]

Card(id, title, labels) == [id |-> id, title |-> title, labels |-> labels]

CardHasFields(card) ==
    /\ HasKey(card, "labels")
    /\ \A i \in DOMAIN card.labels :
          HasKey(card.labels[i], "id") /\ HasKey(card.labels[i], "name")
    /\ HasKey(card, "id")
    /\ HasKey(card, "name")

RECURSIVE parse_cards_loop(_, _, _)
parse_cards_loop(raw, i, parsed_cards) ==
    IF i > Len(raw) THEN [err |-> "none", val |-> parsed_cards]
    ELSE LET card == raw[i] IN
         IF ~ CardHasFields(card) THEN [err |-> "KeyError", val |-> parsed_cards]
         ELSE LET labels == [k \in DOMAIN card.labels |->
                                Label(card.labels[k].id, card.labels[k].name)]
                  parsed == Card(card.id, card.name, labels)
              IN  parse_cards_loop(raw, i + 1,
                      [c \in DOMAIN parsed_cards \cup {card.id} |->
                          IF c = card.id THEN parsed ELSE parsed_cards[c]])

parse_cards(raw) == parse_cards_loop(raw, 1, [c \in {} |-> 0])

(***************************************************************************)
(* The report tree.                                                        *)
(***************************************************************************)
TaskReport(title, spent, sub_tasks) ==
    [title |-> title, spent |-> spent, sub_tasks |-> sub_tasks]

CategoryReport(title, spent, tasks) ==
    [title |-> title, spent |-> spent, tasks |-> tasks]

ProjectReport(title, spent, cats) ==
    [title |-> title, spent |-> spent, categories |-> cats]

DailyReport(title, spent, projs) ==
    [title |-> title, spent |-> spent, projects |-> projs]

SpentOf(reports) == SumSeq([i \in DOMAIN reports |-> reports[i].spent])

\* Label.__eq__ compares ids only; `label in card.labels` uses it.
LabelEq(a, b) == a.id = b.id

LabelIn(label, labels) == \E i \in DOMAIN labels : LabelEq(labels[i], label)

InList(x, list) == \E i \in DOMAIN list : list[i] = x

\* [card.id for card in cards.values() if label in card.labels]
label_card_ids(label, cards_) ==
    {c \in DOMAIN cards_ : LabelIn(label, cards_[c].labels)}

\* [spent for spent in spents if spent.card_id in ids]
spents_in(spents_, ids) == SelectSeq(spents_, LAMBDA spent : spent.card_id \in ids)

spents_not_in(spents_, ids) == SelectSeq(spents_, LAMBDA spent : spent.card_id \notin ids)

(***************************************************************************)
(* get_category_reports.  A result is a record: err is the exception       *)
(* raised, or "none".                                                      *)
(***************************************************************************)
Raised(err) == [err |-> err, val |-> <<>>]

Returned(val) == [err |-> "none", val |-> val]

\* The tasks of one configured category: the spends of the category not
\* yet claimed in this pass, each looked up in the card universe.
RECURSIVE category_tasks(_, _, _, _, _)
category_tasks(category_spents, cards_, i, added, tasks) ==
    IF i > Len(category_spents)
    THEN [err |-> "none", tasks |-> tasks, added |-> added]
    ELSE IF category_spents[i].card_id \in added
         THEN category_tasks(category_spents, cards_, i + 1, added, tasks)
         ELSE IF category_spents[i].card_id \notin DOMAIN cards_
              THEN [err |-> "KeyError", tasks |-> tasks, added |-> added]
              ELSE category_tasks(category_spents, cards_, i + 1,
                       added \cup {category_spents[i].card_id},
                       Append(tasks, TaskReport(cards_[category_spents[i].card_id].title,
                                                category_spents[i].spent,
                                                category_spents[i].comments)))

\* if len(category_spents) == 0: continue
SkipCategory(category_spents) == Len(category_spents) = 0

\* category_spents of one category of the loop
category_spents_of(category, spents_, cards_) ==
    spents_in(spents_, label_card_ids(category, cards_))

RECURSIVE category_loop(_, _, _, _, _, _)

\* The end of one pass of the loop: the CategoryReport of the tasks built.
category_append(spents_, cats, cards_, i, category_reports, built) ==
    IF built.err # "none"
    THEN [err |-> built.err, reports |-> category_reports, added |-> built.added]
    ELSE category_loop(spents_, cats, cards_, i + 1, built.added,
             Append(category_reports,
                    CategoryReport(cats[i].text, SpentOf(built.tasks), built.tasks)))

\* One pass of the loop, category_spents being the spends of the category.
category_pass(spents_, cats, cards_, i, added, category_reports, category_spents) ==
    IF SkipCategory(category_spents)
    THEN category_loop(spents_, cats, cards_, i + 1, added, category_reports)
    ELSE category_append(spents_, cats, cards_, i, category_reports,
                         category_tasks(category_spents, cards_, 1, added, <<>>))

category_loop(spents_, cats, cards_, i, added, category_reports) ==
    IF i > Len(cats)
    THEN [err |-> "none", reports |-> category_reports, added |-> added]
    ELSE category_pass(spents_, cats, cards_, i, added, category_reports,
                       category_spents_of(cats[i], spents_, cards_))

\* The guard of the uncategorized loop left out.
InUniverse_unguarded(spent, cards_) == TRUE

\* if spent.card_id not in cards.keys(): continue
InUniverse(spent, cards_) == spent.card_id \in DOMAIN cards_

RECURSIVE uncategorized_tasks(_, _, _, _)
uncategorized_tasks(uncategorized, cards_, i, tasks) ==
    IF i > Len(uncategorized) THEN Returned(tasks)
    ELSE IF ~ InUniverse(uncategorized[i], cards_)
         THEN uncategorized_tasks(uncategorized, cards_, i + 1, tasks)
         ELSE IF uncategorized[i].card_id \notin DOMAIN cards_
              THEN Raised("KeyError")
              ELSE uncategorized_tasks(uncategorized, cards_, i + 1,
                       Append(tasks, TaskReport(cards_[uncategorized[i].card_id].title,
                                                uncategorized[i].spent,
                                                uncategorized[i].comments)))

\* The uncategorized CategoryReport of the tasks built, appended.
uncategorized_append(category_reports, built) ==
    IF built.err # "none" THEN Raised(built.err)
    ELSE Returned(Append(category_reports,
                         CategoryReport(NOT_CATEGORY_TITLE, SpentOf(built.val), built.val)))

\* The part of get_category_reports after the loop over the categories.
uncategorized_part(category_reports, uncategorized_project_spents, cards_) ==
    IF Len(uncategorized_project_spents) >= 1
    THEN uncategorized_append(category_reports,
                              uncategorized_tasks(uncategorized_project_spents, cards_, 1, <<>>))
    ELSE Returned(category_reports)

after_category_loop(spents_, cards_, looped) ==
    IF looped.err # "none" THEN Raised(looped.err)
    ELSE uncategorized_part(looped.reports, spents_not_in(spents_, looped.added), cards_)

get_category_reports(spents_, cats, cards_) ==
    after_category_loop(spents_, cards_, category_loop(spents_, cats, cards_, 1, {}, <<>>))

project_report_of(project, category_reports) ==
    IF category_reports.err # "none" THEN Raised(category_reports.err)
    ELSE Returned(ProjectReport(project, SpentOf(category_reports.val), category_reports.val))

get_project_report(project, spents_, cats, cards_) ==
    project_report_of(project, get_category_reports(spents_, cats, cards_))

(***************************************************************************)
(* get_report: the target labels, the project loop, the unassigned         *)
(* project, the daily report.                                              *)
(***************************************************************************)
\* [cards[card_id] for card_id in spent_card_ids if card_id in cards.keys()]
known_spents(spents_, cards_) ==
    SelectSeq(spents_, LAMBDA spent : spent.card_id \in DOMAIN cards_)

spent_cards(spents_, cards_) ==
    [i \in DOMAIN known_spents(spents_, cards_) |->
        cards_[known_spents(spents_, cards_)[i].card_id]]

RECURSIVE chain_labels(_)
chain_labels(cs) == IF cs = <<>> THEN <<>> ELSE Head(cs).labels \o chain_labels(Tail(cs))

\* set(...) of Labels: of several labels equal by id the first inserted stays.
dedupe(chain) ==
    {chain[i] : i \in {k \in DOMAIN chain :
                          \A j \in 1..(k - 1) : ~ LabelEq(chain[j], chain[k])}}

target_labels(spents_, cards_) == dedupe(chain_labels(spent_cards(spents_, cards_)))

\* The filter testing the label's id against the configured texts.
labels_with_id_in(iteration, texts) ==
    SelectSeq(iteration, LAMBDA label : InList(label.id, texts))

\* [label for label in target_labels if label.text in texts], the set being
\* iterated in the order iteration.
labels_with_text_in(iteration, texts) ==
    SelectSeq(iteration, LAMBDA label : InList(label.text, texts))

\* project_spents of one project of the loop
project_spents(project, spents_, cards_) ==
    spents_in(spents_, label_card_ids(project, cards_))

RECURSIVE project_loop(_, _, _, _, _, _, _)

\* The end of one pass of the loop: the ProjectReport appended.
project_append(tprojects, tcategories, spents_, cards_, i, added, reports, project_report) ==
    IF project_report.err # "none"
    THEN [err |-> project_report.err, reports |-> reports, added |-> added]
    ELSE project_loop(tprojects, tcategories, spents_, cards_, i + 1, added,
                      Append(reports, project_report.val))

project_loop(tprojects, tcategories, spents_, cards_, i, added_card_ids, project_reports) ==
    IF i > Len(tprojects)
    THEN [err |-> "none", reports |-> project_reports, added |-> added_card_ids]
    ELSE project_append(tprojects, tcategories, spents_, cards_, i,
             added_card_ids \cup label_card_ids(tprojects[i], cards_),
             project_reports,
             get_project_report(tprojects[i].text,
                                project_spents(tprojects[i], spents_, cards_),
                                tcategories, cards_))

\* strftime('%Y/%m/%d') of the cutoff, then the fixed suffix
daily_title(start) == [date |-> start.t \div 24, suffix |-> "??????"]

daily_report(start, project_reports) ==
    DailyReport(daily_title(start), SpentOf(project_reports), project_reports)

\* The unassigned ProjectReport appended, then the DailyReport.
not_project_append(start, project_reports, project_report) ==
    IF project_report.err # "none"
    THEN [err |-> project_report.err, val |-> daily_report(start, <<>>)]
    ELSE Returned(daily_report(start, Append(project_reports, project_report.val)))

\* The part of get_report after the loop over the projects.
not_project_part(start, project_reports, not_project_spents, tcategories, cards_) ==
    IF Len(not_project_spents) >= 1
    THEN not_project_append(start, project_reports,
             get_project_report(NOT_PROJECT_TITLE, not_project_spents, tcategories, cards_))
    ELSE Returned(daily_report(start, project_reports))

after_project_loop(start, spents_, cards_, tcategories, looped) ==
    IF looped.err # "none"
    THEN [err |-> looped.err, val |-> daily_report(start, <<>>)]
    ELSE not_project_part(start, looped.reports, spents_not_in(spents_, looped.added),
                          tcategories, cards_)

build_with_targets(start, spents_, cards_, target_projects, target_categories) ==
    after_project_loop(start, spents_, cards_, target_categories,
        project_loop(target_projects, target_categories, spents_, cards_, 1, {}, <<>>))

build_report(start, spents_, cards_, projs, cats, iteration) ==
    build_with_targets(start, spents_, cards_,
                       labels_with_text_in(iteration, projs),
                       labels_with_text_in(iteration, cats))

(***************************************************************************)
(* get_markdown and get_dict.                                              *)
(***************************************************************************)
\* f'{x:.2f}': the whole hours and the two decimals
fmt2(x) == <<round2(x) \div 1000, (round2(x) % 1000) \div 10>>

Line(level, spent, text) == [level |-> level, spent |-> spent, text |-> text]

RECURSIVE Flatten(_)
Flatten(ss) == IF ss = <<>> THEN <<>> ELSE Head(ss) \o Flatten(Tail(ss))

task_lines(task) ==
    <<Line("task", fmt2(task.spent), task.title)>>
    \o [i \in DOMAIN task.sub_tasks |-> Line("sub_task", <<>>, task.sub_tasks[i])]

category_lines(category) ==
    <<Line("category", fmt2(category.spent), category.title)>>
    \o Flatten([i \in DOMAIN category.tasks |-> task_lines(category.tasks[i])])

project_lines(project) ==
    <<Line("project", fmt2(project.spent), project.title)>>
    \o Flatten([i \in DOMAIN project.categories |-> category_lines(project.categories[i])])
    \o <<Line("blank", <<>>, "")>>

get_markdown(r) ==
    <<Line("title", <<>>, r.title), Line("total", fmt2(r.spent), ""), Line("blank", <<>>, "")>>
    \o Flatten([i \in DOMAIN r.projects |-> project_lines(r.projects[i])])

\* A JSON value that is a number, and one that is a string.
JNum(n) == [type |-> "number", num |-> n, str |-> ""]

JStr(x) == [type |-> "string", num |-> 0, str |-> x]

\* 'spent': f'task.spent' is the text task.spent, there being no braces
task_dict(task) ==
    [title |-> task.title, spent |-> JStr("task.spent"), sub_tasks |-> task.sub_tasks]

category_dict(category) ==
    [title |-> category.title, spent |-> JNum(category.spent),
     tasks |-> [i \in DOMAIN category.tasks |-> task_dict(category.tasks[i])]]

project_dict(project) ==
    [title |-> project.title, spent |-> JNum(project.spent),
     categories |-> [i \in DOMAIN project.categories |->
                        category_dict(project.categories[i])]]

get_dict(r) ==
    [title |-> r.title, spent |-> JNum(r.spent),
     projects |-> [i \in DOMAIN r.projects |-> project_dict(r.projects[i])]]

(***************************************************************************)
(* The steps of main in report mode.  An exception raised by a step        *)
(* propagates out of main: the run stops there.                            *)
(***************************************************************************)
\* An exception swallowed: the run goes on as if the step had succeeded.
pc_after_ignoring(err, next) == next

pc_after(err, next) == IF err # "none" THEN "failed" ELSE next

\* get_actions: read the cached log, or fetch it and cache it; parse it.
GetActions ==
    /\ pc = "get_actions"
    /\ files' = IF mock THEN files ELSE files \cup {_MOCK_ACTIONS_FILE}
    /\ LET filtered == parse_actions(actions, start_datetime) IN
       /\ pc' = pc_after(filtered.err, "get_cards")
       /\ error' = filtered.err
       /\ \E ids \in Perms(card_id_set(filtered.val)) :
             spents' = group_spents(filtered.val, ids)
    /\ UNCHANGED <<mock, actions, start_datetime, raw_cards, projects, categories,
                   cards, order, report, markdown, report_dict>>

\* get_cards: read the cached cards, or fetch and cache them; parse them.
GetCards ==
    /\ pc = "get_cards"
    /\ files' = IF mock THEN files ELSE files \cup {_MOCK_CARDS_FILE}
    /\ LET parsed == parse_cards(raw_cards) IN
       /\ pc' = pc_after(parsed.err, "get_report")
       /\ error' = parsed.err
       /\ cards' = IF parsed.err = "none" THEN parsed.val ELSE cards
    /\ UNCHANGED <<mock, actions, start_datetime, raw_cards, projects, categories,
                   spents, order, report, markdown, report_dict>>

\* get_report up to the DailyReport; order is the iteration order of the
\* set target_labels in this run.
ReportBuilt(iteration, built) ==
    /\ order' = iteration
    /\ pc' = pc_after(built.err, "built")
    /\ error' = built.err
    /\ report' = built.val

BuildReport ==
    /\ pc = "get_report"
    /\ \E iteration \in Perms(target_labels(spents, cards)) :
          ReportBuilt(iteration,
                      build_report(start_datetime, spents, cards,
                                   projects, categories, iteration))
    /\ UNCHANGED <<mock, actions, start_datetime, raw_cards, projects, categories,
                   spents, cards, markdown, report_dict, files>>

\* get_report: get_markdown, then the write of report.md
WriteMarkdown ==
    /\ pc = "built"
    /\ markdown' = get_markdown(report)
    /\ files' = files \cup {_REPORT_MARKDOWN_FILE}
    /\ pc' = "markdown_written"
    /\ UNCHANGED <<mock, actions, start_datetime, raw_cards, projects, categories,
                   spents, cards, order, report, report_dict, error>>

\* get_report: get_dict, then the write of mock_report.json
WriteJson ==
    /\ pc = "markdown_written"
    /\ report_dict' = get_dict(report)
    /\ files' = files \cup {_REPORT_JSON_FILE}
    /\ pc' = "done"
    /\ UNCHANGED <<mock, actions, start_datetime, raw_cards, projects, categories,
                   spents, cards, order, report, markdown, error>>

\* get_report as one call: the DailyReport, then its two renderings and
\* the two files.
ReportWritten(iteration, built) ==
    /\ order' = iteration
    /\ pc' = pc_after(built.err, "done")
    /\ error' = built.err
    /\ report' = built.val
    /\ IF built.err # "none"
       THEN UNCHANGED <<markdown, report_dict, files>>
       ELSE /\ markdown' = get_markdown(built.val)
            /\ report_dict' = get_dict(built.val)
            /\ files' = files \cup {_REPORT_MARKDOWN_FILE, _REPORT_JSON_FILE}

GetReport ==
    /\ pc = "get_report"
    /\ \E iteration \in Perms(target_labels(spents, cards)) :
          ReportWritten(iteration,
                        build_report(start_datetime, spents, cards,
                                     projects, categories, iteration))
    /\ UNCHANGED <<mock, actions, start_datetime, raw_cards, projects, categories,
                   spents, cards>>

(***************************************************************************)
(* Inputs of the model.                                                    *)
(***************************************************************************)
CardName == <<"c1", "c2", "c3", "c4", "c5">>
CardTitle == <<"A", "B", "C", "D", "E">>
CardIds == {CardName[i] : i \in 1..MaxCards}

LabelName == <<"l1", "l2", "l3", "l4", "l5">>
LabelText == <<"X", "Y", "Z", "W", "V">>
Labels == {Label(LabelName[i], LabelText[i]) : i \in 1..MaxLabels}
LabelTexts == {LabelText[i] : i \in 1..MaxLabels}

Dates ==
    { [fmt |-> "bad", t |-> 0, tz |-> 0],
      [fmt |-> "iso", t |-> 23, tz |-> _JST],
      [fmt |-> "iso", t |-> 24, tz |-> _JST],
      [fmt |-> "iso", t |-> 15, tz |-> _UTC],
      [fmt |-> "iso", t |-> 20, tz |-> _UTC] }

Texts ==
    { <<"plus!", " ", "2", "/", "8", " ", "fixed bug">>,
      <<"plus!", " ", "0.125", "/", "4">>,
      <<"not a match">> }

ActionRecords ==
    { [date |-> d, data |-> [text |-> x, card |-> [id |-> c]]] :
          d \in Dates, x \in Texts, c \in CardIds }
    \cup { [date |-> d, data |-> [text |-> x]] : d \in Dates, x \in Texts }

StartDays == {1, 2}

\* The ascending list of the indices in S.
RECURSIVE Ascending(_)
Ascending(S) ==
    IF S = {} THEN <<>>
    ELSE LET m == CHOOSE x \in S : \A y \in S : x <= y
         IN  <<m>> \o Ascending(S \ {m})

LabelLists ==
    { [k \in DOMAIN Ascending(S) |->
          Label(LabelName[Ascending(S)[k]], LabelText[Ascending(S)[k]])] :
      S \in SUBSET (1..MaxLabels) }

\* The card universes: any subset of the card ids, each card with any labels.
Universes ==
    UNION { { [i \in D |-> Card(i, CardTitle[CHOOSE k \in 1..MaxCards : CardName[k] = i], ll[i])] :
                ll \in [D -> LabelLists] } : D \in SUBSET CardIds }

\* The CardSpend of a card id: hours rounded to hundredths, and comments.
SpendAmount == <<2000, 1500, 750, 120, 60>>

SpendOf(k) ==
    Spent(CardName[k], IF k % 2 = 1 THEN << <<"fixed bug">> >> ELSE <<>>, SpendAmount[k])

\* The CardSpend lists: one CardSpend per card id, for the first n card ids
\* (which of them the universe holds is free).
SpendLists == { [k \in 1..n |-> SpendOf(k)] : n \in 0..MaxCards }

\* The configured lists: up to MaxConf label texts.  The program only
\* tests membership in them, so one order of each choice is taken.
ConfLists ==
    { [k \in DOMAIN Ascending(S) |-> LabelText[Ascending(S)[k]]] :
      S \in {T \in SUBSET (1..MaxLabels) : Cardinality(T) <= MaxConf} }

\* The inputs of the whole run: a short log and a few card records.
MainActionRecords ==
    { [date |-> d, data |-> [text |-> <<"plus!", " ", "2", "/", "8", " ", "fixed bug">>,
                             card |-> [id |-> CardName[1]]]] :
          d \in { [fmt |-> "bad", t |-> 0, tz |-> 0],
                  [fmt |-> "iso", t |-> 23, tz |-> _JST],
                  [fmt |-> "iso", t |-> 15, tz |-> _UTC] } }
    \cup { [date |-> [fmt |-> "iso", t |-> 15, tz |-> _UTC],
            data |-> [text |-> <<"plus!", " ", "0.125", "/", "4">>]] }

RawLabel(k) == [id |-> LabelName[k], name |-> LabelText[k]]

RawCardRecords ==
    { [id |-> CardName[1], name |-> CardTitle[1], labels |-> <<RawLabel(1), RawLabel(2)>>],
      [id |-> CardName[2], name |-> CardTitle[2], labels |-> <<RawLabel(1)>>],
      [id |-> CardName[2], name |-> CardTitle[2], labels |-> <<>>],
      [id |-> CardName[1], labels |-> <<RawLabel(2)>>] }

NoReport == DailyReport(daily_title([t |-> 0, tz |-> 0]), 0, <<>>)
NoCards == [c \in {} |-> 0]

(***************************************************************************)
(* Specifications.                                                         *)
(***************************************************************************)
Idle ==
    /\ order = <<>>
    /\ report = NoReport
    /\ markdown = <<>>
    /\ report_dict = get_dict(NoReport)
    /\ files = {}
    /\ error = "none"

\* main in report mode, from the settings and the inputs to the two files.
Init ==
    /\ pc = "get_actions"
    /\ mock \in BOOLEAN
    /\ actions \in SeqsUpTo(MainActionRecords, MaxActions)
    /\ start_datetime = get_start_datetime(1)
    /\ raw_cards \in SeqsUpTo(RawCardRecords, MaxCards)
    /\ projects = <<LabelText[1]>>
    /\ categories = <<LabelText[2]>>
    /\ spents = <<>>
    /\ cards = NoCards
    /\ Idle

Next == GetActions \/ GetCards \/ BuildReport \/ WriteMarkdown \/ WriteJson

Spec == Init /\ [][Next]_vars

\* get_actions alone: every bounded activity log and cutoff, then the call.
InitParse ==
    /\ pc = "get_actions"
    /\ mock = TRUE
    /\ actions \in SeqsUpTo(ActionRecords, MaxActions)
    /\ start_datetime \in {get_start_datetime(d) : d \in StartDays}
    /\ raw_cards = <<>>
    /\ projects = <<>>
    /\ categories = <<>>
    /\ spents = <<>>
    /\ cards = NoCards
    /\ Idle

NextParse == GetActions

SpecParse == InitParse /\ [][NextParse]_vars

\* get_report alone: every bounded CardSpend list, card universe and
\* configuration, then the call.
InitReport ==
    /\ pc = "get_report"
    /\ mock = TRUE
    /\ actions = <<>>
    /\ start_datetime = get_start_datetime(1)
    /\ raw_cards = <<>>
    /\ projects \in ConfLists
    /\ categories \in ConfLists
    /\ spents \in SpendLists
    /\ cards \in Universes
    /\ Idle

NextReport == GetReport

SpecReport == InitReport /\ [][NextReport]_vars

(***************************************************************************)
(* Properties of parse_actions.                                            *)
(***************************************************************************)
DateOk(a) == a.date.fmt = "iso"

AtOrAfterStart(a) ==
    a.date.t - a.date.tz >= start_datetime.t - start_datetime.tz

BodyMatches(a) == pattern_match(a.data.text).matched

LacksCardId(a) == ~ (HasKey(a.data, "card") /\ HasKey(a.data.card, "id"))

\* The records of the log that may contribute to the CardSpend of card_id:
\* those at or after the cutoff whose body matches, in the log's order.
Contributors(card_id) ==
    SelectSeq(actions,
              LAMBDA a : /\ DateOk(a) /\ AtOrAfterStart(a) /\ BodyMatches(a)
                         /\ ~ LacksCardId(a) /\ a.data.card.id = card_id)

ContributorSpents(card_id) ==
    LET c == Contributors(card_id)
    IN  [i \in DOMAIN c |-> pattern_match(c[i].data.text).spent]

ContributorComments(card_id) ==
    LET c == SelectSeq(Contributors(card_id),
                       LAMBDA a : pattern_match(a.data.text).comment # <<>>)
    IN  [i \in DOMAIN c |-> pattern_match(c[i].data.text).comment]

\* C1: a record contributes to a CardSpend (its spent in the sum, its
\* comment collected) exactly when its timestamp is at or after
\* start_datetime and its body matches: each CardSpend is the rounded sum
\* and the comments of those records only, and every such record's card has
\* a CardSpend.  A record strictly earlier than the cutoff contributes to
\* none; one exactly at the cutoff contributes.
C1_OnlyInPeriodContributes ==
    pc = "get_cards" =>
        /\ \A k \in DOMAIN spents :
              /\ Contributors(spents[k].card_id) # <<>>
              /\ spents[k].spent = round2(SumSeq(ContributorSpents(spents[k].card_id)))
              /\ spents[k].comments = ContributorComments(spents[k].card_id)
        /\ \A c \in CardIds :
              Contributors(c) # <<>> => \E k \in DOMAIN spents : spents[k].card_id = c
        /\ \A k, m \in DOMAIN spents : spents[k].card_id = spents[m].card_id => k = m

C1_Witness ==
    /\ pc = "get_cards"
    /\ \E i, j \in DOMAIN actions :
          /\ BodyMatches(actions[i]) /\ ~ LacksCardId(actions[i])
          /\ Instant(actions[i].date) = Instant(start_datetime)
          /\ \E k \in DOMAIN spents :
                /\ spents[k].card_id = actions[i].data.card.id
                /\ spents[k].spent > 0
          /\ BodyMatches(actions[j]) /\ ~ LacksCardId(actions[j])
          /\ Instant(actions[j].date) < Instant(start_datetime)
          /\ actions[j].data.card.id # actions[i].data.card.id
          /\ \A k \in DOMAIN spents : spents[k].card_id # actions[j].data.card.id

\* C9 as stated: parse_actions fails for every log that contains a record
\* with an unparseable timestamp and for every log that contains a record
\* lacking the card identifier, whatever that record's timestamp and body.
C9_FailsOnAnyMalformedRecord ==
    pc # "get_actions" =>
        ((\E i \in DOMAIN actions : ~ DateOk(actions[i]) \/ LacksCardId(actions[i]))
            => pc = "failed")

\* C9 amended: parse_actions fails exactly when the log contains a record
\* with an unparseable timestamp, or a record lacking the card identifier
\* whose timestamp is at or after start_datetime and whose body matches the
\* pattern; a record lacking the card identifier that is earlier than the
\* cutoff or whose body does not match is skipped without failure.
C9_FailsWhenMalformedRecordIsReached ==
    pc # "get_actions" =>
        (pc = "failed" <=>
            \E i \in DOMAIN actions :
                \/ ~ DateOk(actions[i])
                \/ /\ AtOrAfterStart(actions[i])
                   /\ BodyMatches(actions[i])
                   /\ LacksCardId(actions[i]))

C9_Witness ==
    /\ pc = "failed"
    /\ error = "KeyError"
    /\ \A i \in DOMAIN actions : DateOk(actions[i])
    /\ \E i \in DOMAIN actions :
          LacksCardId(actions[i]) /\ ~ AtOrAfterStart(actions[i])

(***************************************************************************)
(* Properties of get_report and get_dict.                                  *)
(***************************************************************************)
Built == pc = "done"

\* The positions <<project, category, task>> of the TaskReports of a tree.
TaskPaths(r) ==
    UNION { UNION { { <<i, j, k>> : k \in DOMAIN r.projects[i].categories[j].tasks } :
                    j \in DOMAIN r.projects[i].categories } :
            i \in DOMAIN r.projects }

TaskAt(r, path) == r.projects[path[1]].categories[path[2]].tasks[path[3]]

TreeTaskSpent(r) ==
    SumSeq([i \in DOMAIN r.projects |->
        SumSeq([j \in DOMAIN r.projects[i].categories |->
            SpentOf(r.projects[i].categories[j].tasks)])])

UniverseSpent ==
    SpentOf(SelectSeq(spents, LAMBDA spent : spent.card_id \in DOMAIN cards))

\* C2: the TaskReport.spent values of the whole DailyReport sum to the
\* CardSpend.spent values of the cards present in the universe: no spend is
\* counted twice, also for a card with two configured project labels.
C2_TaskSpentEqualsUniverseSpent ==
    Built => TreeTaskSpent(report) = UniverseSpent

\* The spends with exactly two labels, the first of the pair <<p, q>> a
\* configured project and the other a configured category.
TwoLabelCases ==
    { <<k, p, q>> \in (DOMAIN spents) \X {1, 2} \X {1, 2} :
        /\ spents[k].card_id \in DOMAIN cards
        /\ Len(cards[spents[k].card_id].labels) = 2
        /\ p # q
        /\ InList(cards[spents[k].card_id].labels[p].text, projects)
        /\ InList(cards[spents[k].card_id].labels[q].text, categories) }

\* The card of the case has exactly one TaskReport in the tree, built from
\* its spend, under the project titled by p and the category titled by q.
OnceUnderProjectAndCategory(case) ==
    LET spent == spents[case[1]]
        card == cards[spent.card_id]
        paths == {path \in TaskPaths(report) : TaskAt(report, path).title = card.title}
    IN  /\ Cardinality(paths) = 1
        /\ \A path \in paths :
              /\ TaskAt(report, path) = TaskReport(card.title, spent.spent, spent.comments)
              /\ report.projects[path[1]].title = card.labels[case[2]].text
              /\ report.projects[path[1]].categories[path[2]].title = card.labels[case[3]].text

\* C3 as stated: a card with recorded spend and exactly two labels, one
\* with a configured project text and one with a configured category text,
\* has exactly one TaskReport, under that project and that category.
C3_TwoLabelCardOnceUnderProjectCategory ==
    Built => \A case \in TwoLabelCases : OnceUnderProjectAndCategory(case)

\* The label texts of a case are configured consistently: the project
\* label is no configured category and the category label no configured
\* project.
ConsistentCase(case) ==
    LET card == cards[spents[case[1]].card_id]
    IN  /\ ~ InList(card.labels[case[2]].text, categories)
        /\ ~ InList(card.labels[case[3]].text, projects)

\* C3 amended: such a card has exactly one TaskReport, under that project
\* and that category, provided the project label's text is not also a
\* configured category and the category label's text is not also a
\* configured project.
C3_ConsistentTwoLabelCardOnce ==
    Built => \A case \in TwoLabelCases :
                 ConsistentCase(case) => OnceUnderProjectAndCategory(case)

C3_Witness ==
    /\ Built
    /\ Len(spents) >= 2
    /\ \E case \in TwoLabelCases :
          /\ ConsistentCase(case)
          /\ OnceUnderProjectAndCategory(case)
          /\ Len(report.projects) >= 2

Position(x, list) == CHOOSE i \in DOMAIN list : list[i] = x

\* The titles of a sequence of reports follow the configured list: the
\* reports of configured texts in the list's relative order, and a report
\* with the fallback title last.
FollowsConfigured(reports, configured, fallback) ==
    /\ \A i, j \in DOMAIN reports :
          (/\ i < j
           /\ InList(reports[i].title, configured)
           /\ InList(reports[j].title, configured))
              => Position(reports[i].title, configured)
                    < Position(reports[j].title, configured)
    /\ \A i \in DOMAIN reports : reports[i].title = fallback => i = Len(reports)

\* C4: the ProjectReports follow the configured projects list and, in
\* every ProjectReport, the CategoryReports follow the configured
\* categories list; the synthetic fallback report is last.
C4_ReportsFollowConfiguredOrder ==
    Built =>
        /\ FollowsConfigured(report.projects, projects, NOT_PROJECT_TITLE)
        /\ \A i \in DOMAIN report.projects :
              FollowsConfigured(report.projects[i].categories, categories,
                                NOT_CATEGORY_TITLE)

\* C5: the structured form mirrors the tree and its spent entry is, at the
\* daily, project, category and task level, the number of the tree node.
C5_DictSpentIsNumeric ==
    Built =>
        /\ report_dict.title = report.title
        /\ report_dict.spent = JNum(report.spent)
        /\ DOMAIN report_dict.projects = DOMAIN report.projects
        /\ \A i \in DOMAIN report.projects :
              LET p == report.projects[i]
                  pd == report_dict.projects[i]
              IN  /\ pd.title = p.title
                  /\ pd.spent = JNum(p.spent)
                  /\ DOMAIN pd.categories = DOMAIN p.categories
                  /\ \A j \in DOMAIN p.categories :
                        LET c == p.categories[j]
                            cd == pd.categories[j]
                        IN  /\ cd.title = c.title
                            /\ cd.spent = JNum(c.spent)
                            /\ DOMAIN cd.tasks = DOMAIN c.tasks
                            /\ \A k \in DOMAIN c.tasks :
                                  /\ cd.tasks[k].title = c.tasks[k].title
                                  /\ cd.tasks[k].sub_tasks = c.tasks[k].sub_tasks
                                  /\ cd.tasks[k].spent = JNum(c.tasks[k].spent)

\* C6: the tree of a run is the tree of every run on the same CardSpend
\* list, card universe, cutoff and configuration, whatever the order in
\* which the set of target labels is iterated.
C6_ReportIndependentOfSetOrder ==
    Built =>
        \A iteration \in Perms(target_labels(spents, cards)) :
            build_report(start_datetime, spents, cards, projects, categories,
                         iteration).val = report

\* C8: every CategoryReport of the tree has at least one TaskReport.
C8_NoEmptyCategoryReport ==
    Built =>
        \A i \in DOMAIN report.projects :
            \A j \in DOMAIN report.projects[i].categories :
                Len(report.projects[i].categories[j].tasks) >= 1

\* A spend no target project claims: its card is absent from the universe
\* or carries no label with a configured project text.
Unclaimed(spent) ==
    \/ spent.card_id \notin DOMAIN cards
    \/ \A i \in DOMAIN cards[spent.card_id].labels :
          ~ InList(cards[spent.card_id].labels[i].text, projects)

Absent(spent) == spent.card_id \notin DOMAIN cards

TaskCount(project) ==
    SumSeq([j \in DOMAIN project.categories |-> Len(project.categories[j].tasks)])

\* C10: with a CardSpend whose card id is absent from the card universe,
\* get_report completes without a lookup failure; every TaskReport of the
\* tree is built from a CardSpend whose card is in the universe, so none
\* is built from the absent one; the unassigned ProjectReport is emitted,
\* last, and holds one TaskReport for each of the other unclaimed spends.
C10_AbsentCardSpendDropped ==
    (pc # "get_report" /\ \E k \in DOMAIN spents : Absent(spents[k])) =>
        /\ pc = "done"
        /\ error = "none"
        /\ \A path \in TaskPaths(report) :
              \E k \in DOMAIN spents :
                  /\ ~ Absent(spents[k])
                  /\ TaskAt(report, path) =
                        TaskReport(cards[spents[k].card_id].title,
                                   spents[k].spent, spents[k].comments)
        /\ Len(report.projects) >= 1
        /\ report.projects[Len(report.projects)].title = NOT_PROJECT_TITLE
        /\ TaskCount(report.projects[Len(report.projects)])
              = Cardinality({k \in DOMAIN spents :
                                Unclaimed(spents[k]) /\ ~ Absent(spents[k])})

C10_Witness ==
    /\ pc = "done"
    /\ \E k, m \in DOMAIN spents :
          /\ Absent(spents[k])
          /\ ~ Absent(spents[m])
          /\ Unclaimed(spents[m])
    /\ TaskCount(report.projects[Len(report.projects)]) = 1
    /\ Len(report.projects) = 1

(***************************************************************************)
(* Property of main in report mode.                                        *)
(***************************************************************************)
Artifacts == {_REPORT_MARKDOWN_FILE, _REPORT_JSON_FILE}

\* C7: a run that failed in parsing or aggregation has written neither
\* report.md nor mock_report.json, and one of them is written only once
\* parse_actions and parse_cards have succeeded and the tree is built.
C7_ArtifactsOnlyAfterSuccess ==
    /\ pc = "failed" => files \cap Artifacts = {}
    /\ files \cap Artifacts # {} =>
          /\ parse_actions(actions, start_datetime).err = "none"
          /\ parse_cards(raw_cards).err = "none"
          /\ cards = parse_cards(raw_cards).val
          /\ pc \in {"markdown_written", "done"}
          /\ report = build_report(start_datetime, spents, cards,
                                   projects, categories, order).val
    /\ _REPORT_JSON_FILE \in files => _REPORT_MARKDOWN_FILE \in files

C7_Witness ==
    /\ pc = "failed"
    /\ ~ mock
    /\ parse_actions(actions, start_datetime).err = "none"
    /\ parse_cards(raw_cards).err = "KeyError"
    /\ _MOCK_CARDS_FILE \in files

====
